---- MODULE Spec2Model ----
(***************************************************************************)
(* llm-router: the /api/chat route handler (POST, llmRouter) and the       *)
(* response sanitizer (cleanModelResponse).                                *)
(*                                                                         *)
(* Text that the code inspects character by character (model replies) is   *)
(* a sequence of one-character strings.  Text that the code only compares  *)
(* or copies (model ids, reasoning sentences, the user message) is a       *)
(* string.                                                                 *)
(***************************************************************************)
EXTENDS Integers, Sequences, FiniteSets, TLC

(***************************************************************************)
(* Regular expressions of lib/utils.ts and route.ts                        *)
(***************************************************************************)

\* The characters \s matches, among those the model's texts are made of.
WhiteSpace == {" ", "\n", "\t"}

\* The pattern atom \s+ (every other atom is a literal character).
SPACES == "\\s+"

\* Case folding of the regular expressions' i flag.
UpperCase ==
  << "A", "B", "C", "D", "E", "F", "G", "H", "I", "J", "K", "L", "M",
     "N", "O", "P", "Q", "R", "S", "T", "U", "V", "W", "X", "Y", "Z" >>
LowerCase ==
  << "a", "b", "c", "d", "e", "f", "g", "h", "i", "j", "k", "l", "m",
     "n", "o", "p", "q", "r", "s", "t", "u", "v", "w", "x", "y", "z" >>
FoldCase ==
  [c \in {UpperCase[i] : i \in 1..26} |->
     LowerCase[CHOOSE i \in 1..26 : UpperCase[i] = c]]

ToLower(c) == IF c \in DOMAIN FoldCase THEN FoldCase[c] ELSE c

\* First position at or after i of s that holds no white space.
RECURSIVE SkipSpaces(_, _)
SkipSpaces(s, i) ==
  IF i <= Len(s) /\ s[i] \in WhiteSpace THEN SkipSpaces(s, i + 1) ELSE i

\* The position after the match of atoms k.. of pat at position i of s, or 0
\* when there is none.  \s+ is greedy; the atom after it is never white space,
\* so giving back white space cannot turn a failure into a match.
RECURSIVE MatchAt(_, _, _, _)
MatchAt(pat, s, i, k) ==
  IF k > Len(pat) THEN i
  ELSE IF i > Len(s) THEN 0
  ELSE IF pat[k] = SPACES
    THEN IF s[i] \in WhiteSpace THEN MatchAt(pat, s, SkipSpaces(s, i), k + 1) ELSE 0
  ELSE IF ToLower(s[i]) = ToLower(pat[k]) THEN MatchAt(pat, s, i + 1, k + 1)
  ELSE 0

\* String.prototype.replace(/pat/gi, ""): one left-to-right scan; the scan
\* resumes after each match and never revisits the text it has joined.
RECURSIVE ReplaceFrom(_, _, _)
ReplaceFrom(pat, s, i) ==
  IF i > Len(s) THEN <<>>
  ELSE LET e == MatchAt(pat, s, i, 1)
       IN IF e > 0 THEN ReplaceFrom(pat, s, e)
          ELSE <<s[i]>> \o ReplaceFrom(pat, s, i + 1)

ReplaceAll(pat, s) == ReplaceFrom(pat, s, 1)

(***************************************************************************)
(* cleanModelResponse (lib/utils.ts)                                       *)
(***************************************************************************)

\* artifacts with /user\s+wrote/ in place of /user\s+wrote:/.
artifacts_NoColon ==
  << <<"a", "n", "a", "l", "y", "s", "i", "s">>,
     <<"a", "s", "s", "i", "s", "t", "a", "n", "t", "f", "i", "n", "a", "l">>,
     <<"u", "s", "e", "r">> \o <<SPACES>> \o <<"w", "r", "o", "t", "e">>,
     <<"t", "h", "e", "y">> \o <<SPACES>> \o <<"a", "r", "e">> \o <<SPACES>> \o <<"a", "s", "k", "i", "n", "g">>,
     <<"s", "o">> \o <<SPACES>> \o <<"c", "o", "u", "n", "t", ":">>,
     <<"s", "o">> \o <<SPACES>> \o <<"a", "n", "s", "w", "e", "r", ":">>,
     <<"p", "r", "o", "b", "a", "b", "l", "y">> \o <<SPACES>> \o <<"t", "h", "e">> \o <<SPACES>> \o <<"a", "s", "s", "i", "s", "t", "a", "n", "t">>
        \o <<SPACES>> \o <<"s", "h", "o", "u", "l", "d">>,
     <<"b", "u", "t">> \o <<SPACES>> \o <<"m", "a", "y", "b", "e">> \o <<SPACES>> \o <<"t", "h", "e">> \o <<SPACES>>
        \o <<"u", "s", "e", "r">> \o <<SPACES>> \o <<"e", "x", "p", "e", "c", "t", "s">>,
     <<"j", "u", "s", "t">> \o <<SPACES>> \o <<"a", "n", "s", "w", "e", "r", ":">>,
     <<"s", "h", "o", "r", "t", ".">> >>

artifacts ==
  << <<"a", "n", "a", "l", "y", "s", "i", "s">>,
     <<"a", "s", "s", "i", "s", "t", "a", "n", "t", "f", "i", "n", "a", "l">>,
     <<"u", "s", "e", "r">> \o <<SPACES>> \o <<"w", "r", "o", "t", "e", ":">>,
     <<"t", "h", "e", "y">> \o <<SPACES>> \o <<"a", "r", "e">> \o <<SPACES>> \o <<"a", "s", "k", "i", "n", "g">>,
     <<"s", "o">> \o <<SPACES>> \o <<"c", "o", "u", "n", "t", ":">>,
     <<"s", "o">> \o <<SPACES>> \o <<"a", "n", "s", "w", "e", "r", ":">>,
     <<"p", "r", "o", "b", "a", "b", "l", "y">> \o <<SPACES>> \o <<"t", "h", "e">> \o <<SPACES>> \o <<"a", "s", "s", "i", "s", "t", "a", "n", "t">>
        \o <<SPACES>> \o <<"s", "h", "o", "u", "l", "d">>,
     <<"b", "u", "t">> \o <<SPACES>> \o <<"m", "a", "y", "b", "e">> \o <<SPACES>> \o <<"t", "h", "e">> \o <<SPACES>>
        \o <<"u", "s", "e", "r">> \o <<SPACES>> \o <<"e", "x", "p", "e", "c", "t", "s">>,
     <<"j", "u", "s", "t">> \o <<SPACES>> \o <<"a", "n", "s", "w", "e", "r", ":">>,
     <<"s", "h", "o", "r", "t", ".">> >>

\* artifacts.forEach(pattern => cleaned = cleaned.replace(pattern, ""))
RECURSIVE RemoveArtifacts(_, _)
RemoveArtifacts(s, k) ==
  IF k > Len(artifacts) THEN s
  ELSE RemoveArtifacts(ReplaceAll(artifacts[k], s), k + 1)

\* replace(/\s+/g, " ")
RECURSIVE CollapseSpaces(_, _)
CollapseSpaces(s, i) ==
  IF i > Len(s) THEN <<>>
  ELSE IF s[i] \in WhiteSpace THEN <<" ">> \o CollapseSpaces(s, SkipSpaces(s, i))
  ELSE <<s[i]>> \o CollapseSpaces(s, i + 1)

\* The longest prefix (suffix) of s made of characters of set.
RECURSIVE LeadRun(_, _, _)
LeadRun(s, set, i) ==
  IF i <= Len(s) /\ s[i] \in set THEN LeadRun(s, set, i + 1) ELSE i - 1

RECURSIVE TrailRun(_, _, _)
TrailRun(s, set, i) ==
  IF i >= 1 /\ s[i] \in set THEN TrailRun(s, set, i - 1) ELSE Len(s) - i

\* Removal of the leading and of the trailing run of characters of set:
\* trim() for white space, replace(/^[.,\s]+|[.,\s]+$/g, "") for punctuation.
StripEnds(s, set) ==
  LET a == LeadRun(s, set, 1)
      b == TrailRun(s, set, Len(s))
  IN IF a + b >= Len(s) THEN <<>> ELSE SubSeq(s, a + 1, Len(s) - b)

Trim(s) == StripEnds(s, WhiteSpace)

\* The minimum length of a cleaned response.
MinCleanedLength == 10

\* The value of `cleaned` when the length test is reached.
Cleaned(response) ==
  StripEnds(Trim(CollapseSpaces(RemoveArtifacts(response, 1), 1)),
            {".", ","} \cup WhiteSpace)

\* cleanModelResponse without the length test.
cleanModelResponse_NoLengthTest(response) ==
  IF response = <<>> THEN response ELSE Cleaned(response)

cleanModelResponse(response) ==
  IF response = <<>> THEN response
  ELSE LET cleaned == Cleaned(response)
       IN IF Len(cleaned) < MinCleanedLength THEN response ELSE cleaned

(***************************************************************************)
(* The second cleaning pass of POST (route.ts)                             *)
(***************************************************************************)

\* String.prototype.indexOf(lit), 1-based; 0 when lit does not occur.
RECURSIVE IndexFrom(_, _, _)
IndexFrom(s, lit, i) ==
  IF i + Len(lit) - 1 > Len(s) THEN 0
  ELSE IF SubSeq(s, i, i + Len(lit) - 1) = lit THEN i
  ELSE IndexFrom(s, lit, i + 1)

IndexOf(s, lit) == IndexFrom(s, lit, 1)

Includes(s, lit) == IndexOf(s, lit) # 0

\* reply.includes("analysis") || reply.includes("assistantfinal")
HasArtifacts(reply) ==
  Includes(reply, <<"a", "n", "a", "l", "y", "s", "i", "s">>) \/ Includes(reply, <<"a", "s", "s", "i", "s", "t", "a", "n", "t", "f", "i", "n", "a", "l">>)

answerPatterns ==
  << <<"T", "h", "e", "r", "e", " ", "a", "r", "e">>, <<"T", "h", "e", " ", "a", "n", "s", "w", "e", "r", " ", "i", "s">>, <<"A", "n", "s", "w", "e", "r", ":">>, <<"F", "i", "n", "a", "l", " ", "a", "n", "s", "w", "e", "r", ":">> >>

\* The for loop over answerPatterns: the text from the first pattern of the
\* list that occurs in reply, or reply when none does.
RECURSIVE FromAnswer(_, _)
FromAnswer(reply, k) ==
  IF k > Len(answerPatterns) THEN reply
  ELSE LET index == IndexOf(reply, answerPatterns[k])
       IN IF index # 0 THEN SubSeq(reply, index, Len(reply))
          ELSE FromAnswer(reply, k + 1)

fallbackArtifacts ==
  << <<"a", "n", "a", "l", "y", "s", "i", "s">>,
     <<"a", "s", "s", "i", "s", "t", "a", "n", "t", "f", "i", "n", "a", "l">>,
     <<"u", "s", "e", "r">> \o <<SPACES>> \o <<"w", "r", "o", "t", "e">>,
     <<"t", "h", "e", "y">> \o <<SPACES>> \o <<"a", "r", "e">> \o <<SPACES>> \o <<"a", "s", "k", "i", "n", "g">> >>

\* The position after the match at i of the first alternative that matches.
RECURSIVE MatchAnyAt(_, _, _, _)
MatchAnyAt(pats, s, i, k) ==
  IF k > Len(pats) THEN 0
  ELSE LET e == MatchAt(pats[k], s, i, 1)
       IN IF e > 0 THEN e ELSE MatchAnyAt(pats, s, i, k + 1)

\* replace(/p1|p2|.../gi, "")
RECURSIVE ReplaceAnyFrom(_, _, _)
ReplaceAnyFrom(pats, s, i) ==
  IF i > Len(s) THEN <<>>
  ELSE LET e == MatchAnyAt(pats, s, i, 1)
       IN IF e > 0 THEN ReplaceAnyFrom(pats, s, e)
          ELSE <<s[i]>> \o ReplaceAnyFrom(pats, s, i + 1)

\* The length a fallback reply must exceed to replace the reply.
MinFallbackLength == 10

fallbackReply(reply) == Trim(ReplaceAnyFrom(fallbackArtifacts, FromAnswer(reply, 1), 1))

\* Lines 73-77: the second pass runs.
FallbackRuns(reply) == reply # <<>> /\ HasArtifacts(reply)

\* FallbackCleaning that takes a fallback of 10 characters too.
FallbackCleaning_TenIsEnough(reply) ==
  IF FallbackRuns(reply) /\ Len(fallbackReply(reply)) >= MinFallbackLength
    THEN fallbackReply(reply)
    ELSE reply

\* Lines 73-107: the reply after the second pass.
FallbackCleaning(reply) ==
  IF reply # <<>> /\ HasArtifacts(reply)
    THEN LET fallback == fallbackReply(reply)
         IN IF Len(fallback) > MinFallbackLength THEN fallback ELSE reply
    ELSE reply

(***************************************************************************)
(* The provider's chat completion: choices[0].message.content              *)
(***************************************************************************)

\* A content is a text or null.
Text(s) == [isNull |-> FALSE, text |-> s]
NullContent == [isNull |-> TRUE, text |-> <<>>]

\* !content
Falsy(content) == content.isNull \/ content.text = <<>>

\* content || ""
OrEmpty(content) == IF Falsy(content) THEN <<>> ELSE content.text

(***************************************************************************)
(* JSON.parse, on the classifier's content as a sequence of JSON tokens    *)
(***************************************************************************)

LBRACE == [t |-> "{", v |-> ""]
RBRACE == [t |-> "}", v |-> ""]
COLON == [t |-> ":", v |-> ""]
COMMA == [t |-> ",", v |-> ""]
NULLTOK == [t |-> "null", v |-> ""]
BLANK == [t |-> "ws", v |-> ""]
Str(s) == [t |-> "str", v |-> s]
Word(s) == [t |-> "word", v |-> s]

\* JavaScript values: undefined, null, a string, an object (its own
\* properties as a function from names to values).
Undefined == [kind |-> "undefined", v |-> "", fields |-> <<>>]
JsNull == [kind |-> "null", v |-> "", fields |-> <<>>]
JsString(s) == [kind |-> "string", v |-> s, fields |-> <<>>]
JsObject(f) == [kind |-> "object", v |-> "", fields |-> f]

\* The outcome of an evaluation: a value, or an exception thrown.
Returns(val) == [threw |-> FALSE, value |-> val]
Throws == [threw |-> TRUE, value |-> Undefined]

IsScalarToken(tok) == tok.t \in {"str", "null"}
ScalarOf(tok) == IF tok.t = "null" THEN JsNull ELSE JsString(tok.v)

\* The members of an object from token i on, after "{" or ","; a repeated
\* name keeps its last value.
RECURSIVE ParseMembers(_, _, _)
ParseMembers(toks, i, fields) ==
  IF i + 3 > Len(toks) THEN Throws
  ELSE IF toks[i].t = "str" /\ toks[i + 1].t = ":" /\ IsScalarToken(toks[i + 2])
    THEN LET f == (toks[i].v :> ScalarOf(toks[i + 2])) @@ fields
         IN IF toks[i + 3].t = "}"
              THEN IF i + 3 = Len(toks) THEN Returns(JsObject(f)) ELSE Throws
            ELSE IF toks[i + 3].t = ","
              THEN ParseMembers(toks, i + 4, f)
            ELSE Throws
  ELSE Throws

\* JSON.parse(text): the value, or a SyntaxError thrown.  White space between
\* tokens is skipped.  The members' values are strings or null.
JSONParse(text) ==
  LET toks == SelectSeq(text, LAMBDA tok : tok.t # "ws")
  IN IF Len(toks) = 0 THEN Throws
     ELSE IF toks[1].t = "{"
       THEN IF Len(toks) >= 2 /\ toks[2].t = "}"
              THEN IF Len(toks) = 2 THEN Returns(JsObject(<<>>)) ELSE Throws
            ELSE ParseMembers(toks, 2, <<>>)
     ELSE IF Len(toks) = 1 /\ IsScalarToken(toks[1]) THEN Returns(ScalarOf(toks[1]))
     ELSE Throws

\* value.name: a TypeError on null, undefined on a string or a missing member.
Member(val, name) ==
  IF val.kind \in {"null", "undefined"} THEN Throws
  ELSE IF val.kind = "object" /\ name \in DOMAIN val.fields
    THEN Returns(val.fields[name])
  ELSE Returns(Undefined)

\* value || dflt, for a string dflt.
OrElse(val, dflt) == IF val.kind = "string" /\ val.v # "" THEN val.v ELSE dflt

(***************************************************************************)
(* llmRouter (route.ts)                                                    *)
(***************************************************************************)

OSS == "openai/gpt-oss-20b:free"
SONNET == "anthropic/claude-sonnet-4"
GPT5MINI == "openai/gpt-5-mini"

\* The keys of modelPerformance.
modelPerformance == {OSS, SONNET, GPT5MINI}

DefaultReasoning == "Default fallback model for simple queries"
ErrorReasoning == "Error in model selection, using default fallback"

DefaultDecision == [model |-> OSS, reasoning |-> DefaultReasoning]
ErrorDecision == [model |-> OSS, reasoning |-> ErrorReasoning]

\* ParsedDecision that throws when the object has no model.
ParsedDecision_ModelRequired(responseContent) ==
  LET parsedResponse == JSONParse(responseContent.text)
  IN IF parsedResponse.threw \/ Member(parsedResponse.value, "model").threw
          \/ Member(parsedResponse.value, "model").value.kind = "undefined"
       THEN Throws
       ELSE Returns([model |-> OrElse(Member(parsedResponse.value, "model").value, OSS),
                     reasoning |-> OrElse(Member(parsedResponse.value, "reasoning").value,
                                          DefaultReasoning)])

\* ParsedDecision that replaces a model that is no key of modelPerformance.
ParsedDecision_CatalogOnly(responseContent) ==
  LET parsedResponse == JSONParse(responseContent.text)
      model == OrElse(Member(parsedResponse.value, "model").value, OSS)
  IN IF parsedResponse.threw \/ Member(parsedResponse.value, "model").threw
       THEN Throws
       ELSE Returns([model |-> IF model \in modelPerformance THEN model ELSE OSS,
                     reasoning |-> OrElse(Member(parsedResponse.value, "reasoning").value,
                                          DefaultReasoning)])

\* Lines 196-201, inside try: the decision, or an exception thrown by
\* JSON.parse or by the property access on null.
ParsedDecision(responseContent) ==
  LET parsedResponse == JSONParse(responseContent.text)
      model == Member(parsedResponse.value, "model")
      reasoning == Member(parsedResponse.value, "reasoning")
  IN IF parsedResponse.threw \/ model.threw
       THEN Throws
       ELSE Returns([model |-> OrElse(model.value, OSS),
                     reasoning |-> OrElse(reasoning.value, DefaultReasoning)])

\* RouterDecision whose catch block returns the no-content decision.
RouterDecision_CatchDefault(responseContent) ==
  IF Falsy(responseContent) THEN DefaultDecision
  ELSE IF ParsedDecision(responseContent).threw THEN DefaultDecision
  ELSE ParsedDecision(responseContent).value

\* RouterDecision that tests responseContent === null.
RouterDecision_NullOnly(responseContent) ==
  IF responseContent.isNull THEN DefaultDecision
  ELSE IF ParsedDecision(responseContent).threw THEN ErrorDecision
  ELSE ParsedDecision(responseContent).value

\* Lines 187-208: what llmRouter returns once the classifier call has resolved
\* with responseContent.
RouterDecision(responseContent) ==
  IF Falsy(responseContent) THEN DefaultDecision
  ELSE LET parsed == ParsedDecision(responseContent)
       IN IF parsed.threw THEN ErrorDecision ELSE parsed.value

(***************************************************************************)
(* POST (route.ts): the reply of the response                              *)
(***************************************************************************)

\* FirstReply that cleans the reply of every model.
FirstReply_EveryModel(model, rawReply) == cleanModelResponse(OrEmpty(rawReply))

\* Lines 53-69: the reply after the first pass.
FirstReply(model, rawReply) ==
  IF model = OSS THEN cleanModelResponse(OrEmpty(rawReply)) ELSE OrEmpty(rawReply)

\* Lines 53-107.
FinalReply(model, rawReply) ==
  IF model = OSS THEN FallbackCleaning(FirstReply(model, rawReply))
  ELSE FirstReply(model, rawReply)

(***************************************************************************)
(* Inputs                                                                  *)
(***************************************************************************)

\* The user messages of the requests.
Messages == {"hello", "debug this code"}

\* The most members an object of the classifier's content has.
MaxMembers == 2

\* The values the classifier gives to "model" and to "reasoning".
ModelTokens == {Str(OSS), Str(SONNET), Str(GPT5MINI), Str("gpt-4"), Str(""), NULLTOK}
ReasoningTokens == {Str("Coding task"), Str(""), NULLTOK}

MemberTexts ==
  {<<Str("model"), COLON, tok>> : tok \in ModelTokens}
    \cup {<<Str("reasoning"), COLON, tok>> : tok \in ReasoningTokens}

\* Member lists of at most n members, separated by commas.
RECURSIVE MemberLists(_)
MemberLists(n) ==
  IF n = 1 THEN MemberTexts
  ELSE MemberLists(n - 1)
         \cup {l \o <<COMMA>> \o m : l \in MemberLists(n - 1), m \in MemberTexts}

ObjectTexts == {<<LBRACE, RBRACE>>} \cup {<<LBRACE>> \o l \o <<RBRACE>> : l \in MemberLists(MaxMembers)}

\* The contents of the classifier's reply: null, objects, objects cut short
\* (max_tokens), objects with white space, and texts that are no object.
ClassifierContents ==
  {NullContent}
    \cup {Text(o) : o \in ObjectTexts}
    \cup UNION {{Text(SubSeq(o, 1, n)) : n \in 0..(Len(o) - 1)} : o \in ObjectTexts}
    \cup {Text(<<BLANK>> \o o \o <<BLANK>>) : o \in {<<LBRACE, RBRACE>>} \cup {<<LBRACE>> \o l \o <<RBRACE>> : l \in MemberTexts}}
    \cup {Text(<<BLANK>>), Text(<<NULLTOK>>), Text(<<Str(OSS)>>),
          Text(<<Word("not"), BLANK, Word("json")>>),
          Text(<<LBRACE, RBRACE, RBRACE>>),
          Text(<<LBRACE, Str("model"), COLON, Str(GPT5MINI), COMMA, RBRACE>>),
          Text(<<Word("Sure"), BLANK, LBRACE, Str("model"), COLON, Str(SONNET), RBRACE>>)}

\* The contents of the downstream model's reply.
Replies ==
  {NullContent, Text(<<>>),
   Text(<<"H", "i", " ", "t", "h", "e", "r", "e", "!">>),
   Text(<<"P", "a", "r", "i", "s", " ", "i", "s", " ", "t", "h", "e", " ", "c", "a", "p", "i", "t", "a", "l", " ", "o", "f", " ", "F", "r", "a", "n", "c", "e", ".">>),
   Text(<<" ", " ", "h", "e", "l", "l", "o", " ", " ", " ", "w", "o", "r", "l", "d", "\n">>),
   Text(<<"a", "n", "a", "l", "y", "s", "i", "s">>),
   Text(<<"a", "n", "a", "l", "y", "s", "i", "s", " ", "t", "h", "e", " ", "u", "s", "e", "r", " ", "w", "r", "o", "t", "e", " ", "h", "e", "l", "l", "o", " ", "s", "o", " ", "a", "n", "s", "w", "e", "r", ":", " ", "H", "i", " ", "t", "h", "e", "r", "e", "!">>),
   Text(<<"a", "s", "s", "i", "s", "t", "a", "n", "t", "f", "i", "n", "a", "l", " ", "T", "h", "e", "r", "e", " ", "a", "r", "e", " ", "3", " ", "a", "p", "p", "l", "e", "s", ".", " ", "S", "h", "o", "r", "t", ".">>),
   Text(<<"a", "n", "a", "n", "a", "l", "y", "s", "i", "s", "a", "l", "y", "s", "i", "s", " ", "T", "h", "e", " ", "a", "n", "s", "w", "e", "r", " ", "i", "s", " ", "4", "2", ".">>),
   Text(<<"a", "n", "a", "n", "a", "l", "y", "s", "i", "s", "a", "l", "y", "s", "i", "s", " ", "o", "f", " ", "t", "h", "e", " ", "d", "a", "t", "a">>),
   Text(<<"a", "n", "a", " ", "a", "n", "a", "l", "y", "s", "i", "s", " ", "l", "y", "s", "i", "s">>),
   Text(<<"a", "n", "a", "n", "a", "l", "y", "s", "i", "s", "a", "l", "y", "s", "i", "s", " ", "0", "1", "2", "3", "4", "5", "6", "7", "8", "9">>),
   Text(<<"a", "n", "a", "n", "a", "n", "a", "l", "y", "s", "i", "s", "a", "l", "y", "s", "i", "s", "a", "l", "y", "s", "i", "s", " ", "o", "f", " ", "t", "h", "e", " ", "d", "a", "t", "a">>)}

(***************************************************************************)
(* The request handler as a state machine                                  *)
(***************************************************************************)

VARIABLES
  pc,               \* where POST is: idle, classifying, completing, responded, rejected
  message,          \* the message of the request body
  routerOutcome,    \* llmRouter: none, pending, returned, threw
  responseContent,  \* llmRouter: the classifier's content
  modelSelection,   \* what llmRouter returned
  classifierCalls,  \* the classifier calls issued
  completionCalls,  \* the models of the completion calls issued, in order
  rawReply,         \* the downstream model's content
  response,         \* the body of the Response
  classifierCall,   \* the classifier call: none, pending, resolved, rejected
  cleanPc,          \* the sanitizer on its own: off, new, once, twice
  cleanInput,       \* its input
  cleanOutput,      \* cleanModelResponse(cleanInput)
  cleanAgain,       \* cleanModelResponse(cleanOutput)
  now,              \* Date.now()
  startTime,        \* POST: startTime
  endTime,          \* POST: endTime
  issuedAt,         \* the times at which the upstream calls were issued
  routingPrompt,    \* llmRouter: the prompt of the classifier call
  log,              \* the events given to the logger
  messages,         \* page: the message list
  input,            \* page: the text of the input box
  isSending,        \* page: isSending
  rendered,         \* page: the state of the last render, which the handlers see
  calls,            \* page: the invocations of handleSend, in order
  appended          \* page: the messages appended so far, by role

handlerVars == <<pc, message, routerOutcome, responseContent, modelSelection,
                 classifierCalls, completionCalls, rawReply, response, classifierCall,
                 startTime, endTime, issuedAt, routingPrompt, log>>
cleanVars == <<cleanPc, cleanInput, cleanOutput, cleanAgain>>
pageVars == <<messages, input, isSending, rendered, calls, appended>>
vars == <<handlerVars, cleanVars, now, pageVars>>

\* The entries of modelPerformance, and the entry POST uses for a model.
NotAvailable ==
  [throughput |-> "N/A", timeToFirstToken |-> "N/A", tokensPerSecond |-> "N/A",
   cost |-> "N/A"]

\* modelPerformanceEntry that gives an unknown model the entry of the default model.
modelPerformanceEntry_DefaultEntry(model) ==
  CASE model = SONNET ->
         [throughput |-> "120 tps", timeToFirstToken |-> "1.2s",
          tokensPerSecond |-> "120", cost |-> "$3/M input, $15/M output"]
    [] model = GPT5MINI ->
         [throughput |-> "150 tps", timeToFirstToken |-> "0.8s",
          tokensPerSecond |-> "150", cost |-> "$0.25/M input, $2/M output"]
    [] OTHER ->
         [throughput |-> "162 tps", timeToFirstToken |-> "0.52s",
          tokensPerSecond |-> "162", cost |-> "Free"]

modelPerformanceEntry(model) ==
  CASE model = OSS ->
         [throughput |-> "162 tps", timeToFirstToken |-> "0.52s",
          tokensPerSecond |-> "162", cost |-> "Free"]
    [] model = SONNET ->
         [throughput |-> "120 tps", timeToFirstToken |-> "1.2s",
          tokensPerSecond |-> "120", cost |-> "$3/M input, $15/M output"]
    [] model = GPT5MINI ->
         [throughput |-> "150 tps", timeToFirstToken |-> "0.8s",
          tokensPerSecond |-> "150", cost |-> "$0.25/M input, $2/M output"]
    [] OTHER -> NotAvailable

\* `${actualTimeToFirstToken}ms`: the number, then the unit.
Milliseconds(n) == <<n, "ms">>

\* Lines 122-138: the performance of the response.
Performance(model, elapsed) ==
  [throughput |-> modelPerformanceEntry(model).throughput,
   timeToFirstToken |-> modelPerformanceEntry(model).timeToFirstToken,
   tokensPerSecond |-> modelPerformanceEntry(model).tokensPerSecond,
   cost |-> modelPerformanceEntry(model).cost,
   actualTimeToFirstToken |-> Milliseconds(elapsed)]

\* Lines 145-176: the prompt of llmRouter, by its parts.
RuleSimple ==
  "- Choose gpt-oss-20b for: Simple greetings, basic questions, casual conversation, or when no specific technical/cognitive demands exist"
RuleCoding ==
  "- Choose claude-sonnet-4 for: Any coding-related tasks, software development, technical implementation, debugging, or when code quality is important"
RuleReasoning ==
  "- Choose gpt-5-mini for: Complex reasoning, analysis, problem-solving, mathematical thinking, or when deep cognitive processing is required"

RoutingPrompt(m) ==
  [models |-> <<OSS, SONNET, GPT5MINI>>,
   rules |-> <<RuleSimple, RuleCoding, RuleReasoning>>,
   userMessage |-> <<m>>]

NoPrompt == [models |-> <<>>, rules |-> <<>>, userMessage |-> <<>>]

\* Lines 211-288, the earlier route: its prompt ends the routing rules with
\* the order of priority.
LegacyRuleSimple ==
  "- Choose gpt-oss-20b ONLY for: Simple greetings, basic questions, casual conversation, or when no specific technical/cognitive demands exist"
RulePriority ==
  "- If multiple criteria apply, prioritize: Coding > Reasoning > Simple"

LegacyRoutingPrompt(m) ==
  [models |-> <<OSS, SONNET, GPT5MINI>>,
   rules |-> <<LegacyRuleSimple, RuleCoding, RuleReasoning, RulePriority>>,
   userMessage |-> <<m>>]

\* Lines 56-120: the events POST gives to the logger for a raw reply.
ReplyEvents(model, raw) ==
  LET first == FirstReply(model, raw)
      final == FinalReply(model, raw)
  IN (IF model = OSS /\ (raw.isNull \/ raw.text # first)
        THEN {"Response cleaned"} ELSE {})
       \cup (IF model = OSS /\ FallbackRuns(first)
                  /\ Len(fallbackReply(first)) > MinFallbackLength
               THEN {"Fallback cleaning applied"} ELSE {})
       \cup (IF model = OSS /\ final # <<>> /\ HasArtifacts(final)
               THEN {"Response still contains artifacts after cleaning"} ELSE {})

NoDecision == [model |-> "", reasoning |-> ""]
NoTime == 0
NoResponse ==
  [model |-> "", reasoning |-> "", reply |-> <<>>,
   performance |-> Performance("", NoTime)]

HandlerInit ==
  /\ pc = "idle"
  /\ message = ""
  /\ routerOutcome = "none"
  /\ classifierCall = "none"
  /\ responseContent = NullContent
  /\ modelSelection = NoDecision
  /\ classifierCalls = 0
  /\ completionCalls = <<>>
  /\ rawReply = NullContent
  /\ response = NoResponse
  /\ startTime = NoTime
  /\ endTime = NoTime
  /\ issuedAt = <<>>
  /\ routingPrompt = NoPrompt
  /\ log = {}

\* The page before it is used.
NoRender == [input |-> <<>>, isSending |-> FALSE, length |-> 0]

PageOff ==
  /\ messages = <<>>
  /\ input = <<>>
  /\ isSending = FALSE
  /\ rendered = NoRender
  /\ calls = <<>>
  /\ appended = [user |-> 0, assistant |-> 0]

Init ==
  /\ HandlerInit
  /\ now = 0
  /\ PageOff
  /\ cleanPc = "off"
  /\ cleanInput = <<>>
  /\ cleanOutput = <<>>
  /\ cleanAgain = <<>>

\* Lines 36-39 and 145-185: POST takes the message m, reads the clock, and
\* llmRouter issues the classifier call.
ReceiveMessage(m) ==
  /\ pc = "idle"
  /\ message' = m
  /\ startTime' = now
  /\ routingPrompt' = RoutingPrompt(m)
  /\ log' = log \cup {"Routing prompt"}
  /\ issuedAt' = Append(issuedAt, now)
  /\ pc' = "classifying"
  /\ routerOutcome' = "pending"
  /\ classifierCall' = "pending"
  /\ classifierCalls' = classifierCalls + 1
  /\ UNCHANGED <<responseContent, modelSelection, completionCalls, rawReply, response,
                 endTime, now>>

\* RouterReturns that reads the clock for startTime right before the completion
\* call.
RouterReturns_ReadsClock(content) ==
  /\ pc = "classifying"
  /\ LET decision == RouterDecision(content)
     IN /\ responseContent' = content
        /\ modelSelection' = decision
        /\ completionCalls' = Append(completionCalls, decision.model)
        /\ log' = log \cup {"Model selected"}
                      \cup (IF decision = ErrorDecision
                              THEN {"Failed to parse routing response"} ELSE {})
  /\ issuedAt' = Append(issuedAt, now)
  /\ startTime' = now
  /\ classifierCall' = "resolved"
  /\ routerOutcome' = "returned"
  /\ pc' = "completing"
  /\ UNCHANGED <<message, classifierCalls, rawReply, response, endTime,
                 routingPrompt, now>>

\* Lines 187-208 and 40-48: the classifier call resolves with content,
\* llmRouter returns and POST issues the completion call with the model it
\* was given.
RouterReturns(content) ==
  /\ pc = "classifying"
  /\ LET decision == RouterDecision(content)
     IN /\ responseContent' = content
        /\ modelSelection' = decision
        /\ completionCalls' = Append(completionCalls, decision.model)
        /\ log' = log \cup {"Model selected"}
                      \cup (IF decision = ErrorDecision
                              THEN {"Failed to parse routing response"} ELSE {})
  /\ issuedAt' = Append(issuedAt, now)
  /\ classifierCall' = "resolved"
  /\ routerOutcome' = "returned"
  /\ pc' = "completing"
  /\ UNCHANGED <<message, classifierCalls, rawReply, response, startTime, endTime,
                 routingPrompt, now>>

\* Lines 179-185 are outside the try block: the rejection of the classifier
\* call (network, HTTP status) rejects llmRouter, and with it POST at line 39.
RouterThrows ==
  /\ pc = "classifying"
  /\ classifierCall' = "rejected"
  /\ routerOutcome' = "threw"
  /\ pc' = "rejected"
  /\ UNCHANGED <<message, responseContent, modelSelection, classifierCalls,
                 completionCalls, rawReply, response, startTime, endTime, issuedAt,
                 routingPrompt, log, now>>

\* Lines 50-141: the completion call resolves with content and POST responds.
Responds(content) ==
  /\ pc = "completing"
  /\ rawReply' = content
  /\ endTime' = now
  /\ response' = [model |-> modelSelection.model,
                  reasoning |-> modelSelection.reasoning,
                  reply |-> FinalReply(modelSelection.model, content),
                  performance |-> Performance(modelSelection.model, now - startTime)]
  /\ log' = log \cup ReplyEvents(modelSelection.model, content)
  /\ pc' = "responded"
  /\ UNCHANGED <<message, routerOutcome, responseContent, modelSelection,
                 classifierCalls, completionCalls, classifierCall, startTime, issuedAt,
                 routingPrompt, now>>

\* CompletionFails that tries the completion call once more.
CompletionFails_Retries ==
  /\ pc = "completing"
  /\ IF Len(completionCalls) < 2
       THEN /\ completionCalls' = Append(completionCalls, modelSelection.model)
            /\ issuedAt' = Append(issuedAt, now)
            /\ pc' = "completing"
       ELSE /\ pc' = "rejected"
            /\ UNCHANGED <<completionCalls, issuedAt>>
  /\ UNCHANGED <<message, routerOutcome, responseContent, modelSelection,
                 classifierCalls, rawReply, response, classifierCall,
                 startTime, endTime, routingPrompt, log, now>>

\* Lines 45-48: the completion call rejects, and POST with it.
CompletionFails ==
  /\ pc = "completing"
  /\ pc' = "rejected"
  /\ UNCHANGED <<message, routerOutcome, responseContent, modelSelection,
                 classifierCalls, completionCalls, rawReply, response, classifierCall,
                 startTime, endTime, issuedAt, routingPrompt, log, now>>

Receive ==
  /\ \E m \in Messages : ReceiveMessage(m)
  /\ UNCHANGED <<cleanVars, pageVars>>

ClassifierResolves ==
  /\ \E content \in ClassifierContents : RouterReturns(content)
  /\ UNCHANGED <<cleanVars, pageVars>>

ClassifierRejects ==
  /\ RouterThrows
  /\ UNCHANGED <<cleanVars, pageVars>>

CompletionResolves ==
  /\ \E content \in Replies : Responds(content)
  /\ UNCHANGED <<cleanVars, pageVars>>

CompletionRejects ==
  /\ CompletionFails
  /\ UNCHANGED <<cleanVars, pageVars>>

Next ==
  \/ Receive
  \/ ClassifierResolves
  \/ ClassifierRejects
  \/ CompletionResolves
  \/ CompletionRejects

Spec == Init /\ [][Next]_vars

(***************************************************************************)
(* The request handler with a clock                                        *)
(***************************************************************************)

\* The last reading of the clock.
MaxClock == 3

\* A few contents of the classifier's reply and of the downstream reply.
SomeContents ==
  {NullContent,
   Text(<<Word("not"), BLANK, Word("json")>>),
   Text(<<LBRACE, Str("model"), COLON, Str(OSS), COMMA,
          Str("reasoning"), COLON, Str("Coding task"), RBRACE>>),
   Text(<<LBRACE, Str("model"), COLON, Str(SONNET), COMMA,
          Str("reasoning"), COLON, Str("Coding task"), RBRACE>>),
   Text(<<LBRACE, Str("model"), COLON, Str("gpt-4"), COMMA,
          Str("reasoning"), COLON, Str("Coding task"), RBRACE>>)}

SomeReplies == {NullContent, Text(<<"H", "i", " ", "t", "h", "e", "r", "e", "!">>), Text(<<"a", "n", "a", "l", "y", "s", "i", "s", " ", "o", "f", " ", "t", "h", "e", " ", "d", "a", "t", "a">>)}

\* Time passes while POST runs.
Tick ==
  /\ pc \in {"idle", "classifying", "completing"}
  /\ now < MaxClock
  /\ now' = now + 1
  /\ UNCHANGED <<handlerVars, cleanVars, pageVars>>

TimedReceive ==
  /\ \E m \in Messages : ReceiveMessage(m)
  /\ UNCHANGED <<cleanVars, pageVars>>

SomeClassifierResolves ==
  /\ \E content \in SomeContents : RouterReturns(content)
  /\ UNCHANGED <<cleanVars, pageVars>>

SomeCompletionResolves ==
  /\ \E content \in SomeReplies : Responds(content)
  /\ UNCHANGED <<cleanVars, pageVars>>

TimedNext ==
  \/ Tick
  \/ TimedReceive
  \/ SomeClassifierResolves
  \/ ClassifierRejects
  \/ SomeCompletionResolves
  \/ CompletionRejects

SpecTimed == Init /\ [][TimedNext]_vars

(***************************************************************************)
(* The chat page (page.tsx) with the route behind it                       *)
(***************************************************************************)

\* The most invocations of handleSend that pass canSend.
MaxSends == 2

\* What the user types into the input box.
Inputs == { <<" ", " ">>, <<" ", "h", "i", " ">> }

Greeting == <<"H", "i", "!", " ", "I", " ", "a", "m", " ", "y", "o", "u", "r", " ", "A", "I", " ", "a", "s", "s", "i", "s", "t", "a", "n", "t", ".", " ", "H", "o", "w", " ", "c", "a", "n", " ", "I", " ", "h", "e", "l", "p", " ", "y", "o", "u", " ", "t", "o", "d", "a", "y", "?">>
Apology == <<"S", "o", "r", "r", "y", ",", " ", "t", "h", "e", "r", "e", " ", "w", "a", "s", " ", "a", " ", "p", "r", "o", "b", "l", "e", "m", " ", "c", "o", "n", "t", "a", "c", "t", "i", "n", "g", " ", "t", "h", "e", " ", "A", "P", "I", ".", " ", "P", "l", "e", "a", "s", "e", " ", "t", "r", "y", " ", "a", "g", "a", "i", "n", ".">>

\* Lines 56-62.
formatAssistantReply(text) ==
  IF Len(Trim(text)) > 0
    THEN <<"Y", "o", "u", " ", "s", "a", "i", "d", ":", " ", "\"">> \o Trim(text) \o <<"\"", ".", " ", "H", "e", "r", "e", " ", "i", "s", " ", "a", " ", "h", "e", "l", "p", "f", "u", "l", " ", "r", "e", "s", "p", "o", "n", "s", "e", ".">>
    ELSE <<"H", "e", "l", "l", "o", "!", " ", "A", "s", "k", " ", "m", "e", " ", "a", "n", "y", "t", "h", "i", "n", "g", ".">>

\* An optional property of a message: a value, or undefined.
Defined(val) == [defined |-> TRUE, value |-> val]
UndefinedString == [defined |-> FALSE, value |-> ""]
UndefinedPerformance == [defined |-> FALSE, value |-> Performance("", NoTime)]

UserMessage(text) ==
  [role |-> "user", content |-> text, model |-> UndefinedString,
   reasoning |-> UndefinedString, performance |-> UndefinedPerformance]

PlainMessage(text) ==
  [role |-> "assistant", content |-> text, model |-> UndefinedString,
   reasoning |-> UndefinedString, performance |-> UndefinedPerformance]

\* The JSON of a response body: the properties it has, and their values.
\* route.ts lines 131-141: the body of the structured response.
StructuredBody(r) ==
  [has |-> {"model", "reasoning", "performance", "reply"},
   model |-> r.model, reasoning |-> r.reasoning, performance |-> r.performance,
   reply |-> r.reply, message |-> <<>>]

\* route.ts lines 223-234 and 281-288, the earlier route: the model it
\* routes to, or an exception (JSON.parse is in no try block there).
LegacyModel(content) ==
  IF Falsy(content) THEN Returns(OSS)
  ELSE LET parsedResponse == JSONParse(content.text)
           model == Member(parsedResponse.value, "model")
       IN IF parsedResponse.threw \/ model.threw THEN Throws
          ELSE Returns(OrElse(model.value, OSS))

\* ` Model: ${model} \n\n\n Reply: ${reply}`; the model id is one element of
\* the text, and a null reply reads "null".
LegacyBody(model, reply) ==
  [has |-> {"message"},
   model |-> "", reasoning |-> "", performance |-> Performance("", NoTime),
   reply |-> <<>>,
   message |-> <<" ", "M", "o", "d", "e", "l", ":", " ">> \o <<model>> \o <<" ", "\n", "\n", "\n", " ", "R", "e", "p", "l", "y", ":", " ">>
                 \o (IF reply.isNull THEN <<"n", "u", "l", "l">> ELSE reply.text)]

\* What handleSend has of a request: the parsed body, or no body to parse.
Parsed(body) == [ok |-> TRUE, json |-> body]
NotParsed == [ok |-> FALSE, json |-> LegacyBody("", NullContent)]

\* handleSend with a message that shows the model whenever the body has one.
AssistantMessage_ModelAlways(json, text) ==
  LET model == IF "model" \in json.has /\ json.model # ""
                 THEN Defined(json.model) ELSE UndefinedString
  IN IF "model" \in json.has /\ json.model # "" /\ "reply" \in json.has /\ json.reply # <<>>
       THEN [role |-> "assistant", content |-> json.reply, model |-> model,
             reasoning |-> Defined(json.reasoning),
             performance |-> Defined(json.performance)]
     ELSE IF "message" \in json.has /\ json.message # <<>>
       THEN [PlainMessage(json.message) EXCEPT !.model = model]
     ELSE [PlainMessage(formatAssistantReply(text)) EXCEPT !.model = model]

\* Lines 121-150: the assistant message for a parsed body (an object).
AssistantMessage(json, text) ==
  IF "model" \in json.has /\ json.model # "" /\ "reply" \in json.has /\ json.reply # <<>>
    THEN [role |-> "assistant", content |-> json.reply,
          model |-> Defined(json.model),
          reasoning |-> IF "reasoning" \in json.has
                          THEN Defined(json.reasoning) ELSE UndefinedString,
          performance |-> IF "performance" \in json.has
                            THEN Defined(json.performance) ELSE UndefinedPerformance]
  ELSE IF "message" \in json.has /\ json.message # <<>>
    THEN PlainMessage(json.message)
  ELSE PlainMessage(formatAssistantReply(text))

\* canSend that does not look at isSending.
CanSend_IgnoresSending(r) == Len(Trim(r.input)) > 0

\* Lines 72-75, on the state of a render.
CanSend(r) == Len(Trim(r.input)) > 0 /\ ~r.isSending

\* An invocation of handleSend that passed canSend: where it is (sent: fetch
\* is pending; handling: the route runs; parsing: response.json() is pending;
\* done), its text, why it failed if it did, what was parsed, and the
\* assistant message it appended.
NewCall(text) ==
  [stage |-> "sent", text |-> text, failure |-> "none", result |-> NotParsed,
   answer |-> PlainMessage(<<>>)]

\* The state after the page is mounted (lines 82-91): the greeting is shown.
PageInit ==
  /\ messages = <<PlainMessage(Greeting)>>
  /\ input = <<>>
  /\ isSending = FALSE
  /\ rendered = [input |-> <<>>, isSending |-> FALSE, length |-> 1]
  /\ calls = <<>>
  /\ appended = [user |-> 0, assistant |-> 0]

InitPage ==
  /\ HandlerInit
  /\ now = 0
  /\ PageInit
  /\ cleanPc = "off"
  /\ cleanInput = <<>>
  /\ cleanOutput = <<>>
  /\ cleanAgain = <<>>

\* onChange: setInput, rendered before the next event.
TypeInput ==
  /\ \E t \in Inputs :
       /\ input' = t
       /\ rendered' = [rendered EXCEPT !.input = t]
  /\ UNCHANGED <<messages, isSending, calls, appended>>
  /\ UNCHANGED <<handlerVars, cleanVars, now>>

\* Lines 97-117: handleSend as the last render made it, up to the fetch.  Its
\* updates are those of a click or a key press, rendered before the next event.
HandleSend ==
  /\ CanSend(rendered)
  /\ Len(calls) < MaxSends
  /\ LET text == Trim(rendered.input)
     IN /\ messages' = Append(messages, UserMessage(text))
        /\ calls' = Append(calls, NewCall(text))
  /\ input' = <<>>
  /\ isSending' = TRUE
  /\ appended' = [appended EXCEPT !.user = @ + 1]
  /\ rendered' = [input |-> <<>>, isSending |-> TRUE, length |-> rendered.length + 1]
  /\ UNCHANGED <<handlerVars, cleanVars, now>>

\* A click on a Send button, which is disabled unless canSend.
ClickSend == HandleSend

\* Lines 167-173: Enter without Shift calls handleSend, which returns when
\* canSend is false.
PressEnter == IF CanSend(rendered) THEN HandleSend ELSE UNCHANGED vars

\* A click on New chat, which is disabled while the list has one message or
\* none: reset, lines 48-51.
ClickNewChat ==
  /\ rendered.length > 1
  /\ messages' = <<>>
  /\ rendered' = [rendered EXCEPT !.length = 0]
  /\ UNCHANGED <<input, isSending, calls, appended>>
  /\ UNCHANGED <<handlerVars, cleanVars, now>>

\* The render of the updates made after an await.
Render ==
  /\ rendered # [input |-> input, isSending |-> isSending, length |-> Len(messages)]
  /\ rendered' = [input |-> input, isSending |-> isSending, length |-> Len(messages)]
  /\ UNCHANGED <<messages, input, isSending, calls, appended>>
  /\ UNCHANGED <<handlerVars, cleanVars, now>>

\* handleSend without the finally block.
Answered_StaysSending(i, answer, failure) ==
  /\ messages' = Append(messages, answer)
  /\ appended' = [appended EXCEPT !.assistant = @ + 1]
  /\ calls' = [calls EXCEPT ![i].stage = "done", ![i].answer = answer,
                            ![i].failure = failure]
  /\ isSending' = (isSending /\ answer.content = Apology)
  /\ UNCHANGED <<input, rendered>>

\* Lines 143-164: invocation i appends its assistant message and, in the
\* finally block, sets isSending to false.
Answered(i, answer, failure) ==
  /\ messages' = Append(messages, answer)
  /\ appended' = [appended EXCEPT !.assistant = @ + 1]
  /\ calls' = [calls EXCEPT ![i].stage = "done", ![i].answer = answer,
                            ![i].failure = failure]
  /\ isSending' = FALSE
  /\ UNCHANGED <<input, rendered>>

\* Line 113: the fetch rejects (the network fails) and the catch block runs.
FetchRejects ==
  /\ \E i \in DOMAIN calls :
       /\ calls[i].stage = "sent"
       /\ Answered(i, PlainMessage(Apology), "network")
  /\ UNCHANGED <<handlerVars, cleanVars, now>>

\* The contents of the classifier's reply and of the downstream reply behind
\* the page.
PageContents ==
  {NullContent,
   Text(<<Word("not"), BLANK, Word("json")>>),
   Text(<<LBRACE, Str("model"), COLON, Str("gpt-4"), COMMA,
          Str("reasoning"), COLON, Str("Coding task"), RBRACE>>)}

PageReplies == {NullContent, Text(<<"H", "i", " ", "t", "h", "e", "r", "e", "!">>)}

PageClassifierResolves ==
  /\ \E content \in PageContents : RouterReturns(content)
  /\ UNCHANGED <<cleanVars, pageVars>>

PageCompletionResolves ==
  /\ \E content \in PageReplies : Responds(content)
  /\ UNCHANGED <<cleanVars, pageVars>>

\* The request of an invocation reaches the route, which runs POST for it.
ServerReceives ==
  /\ \E i \in DOMAIN calls :
       /\ calls[i].stage = "sent"
       /\ ReceiveMessage(calls[i].text)
       /\ calls' = [calls EXCEPT ![i].stage = "handling"]
  /\ UNCHANGED <<messages, input, isSending, rendered, appended>>
  /\ UNCHANGED cleanVars

\* The handler's variables after a request, ready for the next one.
HandlerDone ==
  /\ pc' = "idle"
  /\ message' = ""
  /\ routerOutcome' = "none"
  /\ classifierCall' = "none"
  /\ responseContent' = NullContent
  /\ modelSelection' = NoDecision
  /\ classifierCalls' = 0
  /\ completionCalls' = <<>>
  /\ rawReply' = NullContent
  /\ response' = NoResponse
  /\ startTime' = NoTime
  /\ endTime' = NoTime
  /\ issuedAt' = <<>>
  /\ routingPrompt' = NoPrompt
  /\ log' = {}

\* Lines 113-118: the fetch resolves, with the body POST built or, when POST
\* rejected, with the error response of the framework, which is no JSON.
FetchResolves ==
  /\ pc \in {"responded", "rejected"}
  /\ \E i \in DOMAIN calls :
       /\ calls[i].stage = "handling"
       /\ calls' = [calls EXCEPT
            ![i].stage = "parsing",
            ![i].failure = IF pc = "responded" THEN "none"
                           ELSE IF routerOutcome = "threw" THEN "classifier"
                           ELSE "completion",
            ![i].result = IF pc = "responded" THEN Parsed(StructuredBody(response))
                          ELSE NotParsed]
  /\ HandlerDone
  /\ UNCHANGED <<messages, input, isSending, rendered, appended>>
  /\ UNCHANGED <<cleanVars, now>>

\* The earlier route (route.ts lines 211-288) serves the request: its body,
\* or the error response when an upstream call rejects or JSON.parse throws.
LegacyServes ==
  /\ \E i \in DOMAIN calls, content \in PageContents, reply \in PageReplies,
        rejects \in BOOLEAN :
       /\ calls[i].stage = "sent"
       /\ calls' = [calls EXCEPT
            ![i].stage = "parsing",
            ![i].failure = IF rejects \/ LegacyModel(content).threw
                             THEN "legacy" ELSE "none",
            ![i].result = IF rejects \/ LegacyModel(content).threw THEN NotParsed
                          ELSE Parsed(LegacyBody(LegacyModel(content).value, reply))]
  /\ UNCHANGED <<messages, input, isSending, rendered, appended>>
  /\ UNCHANGED <<handlerVars, cleanVars, now>>

\* Lines 118-152 and 162-164: response.json() resolves.
JsonResolves ==
  /\ \E i \in DOMAIN calls :
       /\ calls[i].stage = "parsing"
       /\ calls[i].result.ok
       /\ Answered(i, AssistantMessage(calls[i].result.json, calls[i].text),
                   calls[i].failure)
  /\ UNCHANGED <<handlerVars, cleanVars, now>>

\* Lines 118 and 153-164: response.json() rejects and the catch block runs.
JsonRejects ==
  /\ \E i \in DOMAIN calls :
       /\ calls[i].stage = "parsing"
       /\ ~calls[i].result.ok
       /\ Answered(i, PlainMessage(Apology), calls[i].failure)
  /\ UNCHANGED <<handlerVars, cleanVars, now>>

PageNext ==
  \/ TypeInput
  \/ ClickSend
  \/ PressEnter
  \/ ClickNewChat
  \/ Render
  \/ FetchRejects
  \/ ServerReceives
  \/ PageClassifierResolves
  \/ ClassifierRejects
  \/ PageCompletionResolves
  \/ CompletionRejects
  \/ FetchResolves
  \/ LegacyServes
  \/ JsonResolves
  \/ JsonRejects

SpecPage == InitPage /\ [][PageNext]_vars

(***************************************************************************)
(* cleanModelResponse applied to a text, and again to its result           *)
(***************************************************************************)

\* The pieces the sanitizer's inputs are made of, and the most pieces of one.
Fragments ==
  { <<"A", "n", "a", "l", "y", "s", "i", "s">>, <<"a", "n", "a">>, <<"l", "y", "s", "i", "s">>, <<"s", "o">>, <<"a", "n", "s", "w", "e", "r", ":">>, <<"h", "e", "l", "l", "o", " ", "w", "o", "r", "l", "d">>,
    <<" ">>, <<".">> }

MaxFragments == 4

RECURSIVE Concatenations(_)
Concatenations(n) ==
  IF n = 0 THEN {<<>>}
  ELSE Concatenations(n - 1)
         \cup {s \o f : s \in Concatenations(n - 1), f \in Fragments}

CleanInit ==
  /\ HandlerInit
  /\ now = 0
  /\ PageOff
  /\ cleanPc = "new"
  /\ cleanInput \in Concatenations(MaxFragments)
  /\ cleanOutput = <<>>
  /\ cleanAgain = <<>>

CleanOnce ==
  /\ cleanPc = "new"
  /\ cleanOutput' = cleanModelResponse(cleanInput)
  /\ cleanPc' = "once"
  /\ UNCHANGED <<cleanInput, cleanAgain>>
  /\ UNCHANGED <<handlerVars, now, pageVars>>

CleanTwice ==
  /\ cleanPc = "once"
  /\ cleanAgain' = cleanModelResponse(cleanOutput)
  /\ cleanPc' = "twice"
  /\ UNCHANGED <<cleanInput, cleanOutput>>
  /\ UNCHANGED <<handlerVars, now, pageVars>>

CleanNext == CleanOnce \/ CleanTwice

SpecClean == CleanInit /\ [][CleanNext]_vars

(***************************************************************************)
(* Properties                                                              *)
(***************************************************************************)

\* The classifier's content as a JavaScript value, when it is JSON.
IsJSON(content) == ~Falsy(content) /\ ~JSONParse(content.text).threw
ValueOfContent(content) == JSONParse(content.text).value

\* The content is a JSON object with a non-empty string under name.
HasString(content, name) ==
  /\ IsJSON(content)
  /\ ValueOfContent(content).kind = "object"
  /\ name \in DOMAIN ValueOfContent(content).fields
  /\ ValueOfContent(content).fields[name].kind = "string"
  /\ ValueOfContent(content).fields[name].v # ""

\* C1: llmRouter never raises: whatever the outcome of the classifier call,
\* it returns a decision, the default decision when the call fails, and POST
\* issues the completion call.
C1_RouterNeverRaises ==
  /\ routerOutcome # "threw"
  /\ classifierCall = "rejected" =>
       /\ routerOutcome = "returned"
       /\ modelSelection = DefaultDecision
       /\ Len(completionCalls) = 1

\* C2: when the classifier's content is non-empty and is not valid JSON,
\* llmRouter returns the default model with the reasoning "Error in model
\* selection, using default fallback", and does not throw.
C2_UnparsableContent ==
  (classifierCall = "resolved" /\ ~Falsy(responseContent)
     /\ JSONParse(responseContent.text).threw)
    => (routerOutcome = "returned"
          /\ modelSelection = [model |-> OSS, reasoning |-> ErrorReasoning])

C2_Witness ==
  /\ pc = "completing"
  /\ responseContent = Text(<<Word("not"), BLANK, Word("json")>>)
  /\ modelSelection.reasoning = ErrorReasoning

\* The content is a JSON object that has no member "model".
ObjectWithoutModel(content) ==
  /\ IsJSON(content)
  /\ ValueOfContent(content).kind = "object"
  /\ "model" \notin DOMAIN ValueOfContent(content).fields

C4_NoContent ==
  (classifierCall = "resolved" /\ (responseContent.isNull \/ responseContent.text = <<>>))
    => (routerOutcome = "returned"
          /\ modelSelection = [model |-> OSS, reasoning |-> DefaultReasoning])

C4_Witness ==
  /\ pc = "completing"
  /\ responseContent = Text(<<>>)
  /\ modelSelection = [model |-> OSS, reasoning |-> DefaultReasoning]

\* C5: when the classifier's content is a JSON object with a non-empty model
\* and a non-empty reasoning, llmRouter returns that pair unchanged, whether
\* or not the model is a key of the catalog.
C5_PassThrough ==
  (classifierCall = "resolved" /\ HasString(responseContent, "model")
     /\ HasString(responseContent, "reasoning"))
    => modelSelection =
         [model |-> ValueOfContent(responseContent).fields["model"].v,
          reasoning |-> ValueOfContent(responseContent).fields["reasoning"].v]

C5_Witness ==
  /\ pc = "completing"
  /\ responseContent =
       Text(<<LBRACE, Str("model"), COLON, Str("gpt-4"), COMMA,
              Str("reasoning"), COLON, Str("Coding task"), RBRACE>>)
  /\ modelSelection = [model |-> "gpt-4", reasoning |-> "Coding task"]
  /\ modelSelection.model \notin modelPerformance

\* C6: the model of every completion call is a key of the catalog.
C6_CompletionModelInCatalog ==
  \A i \in DOMAIN completionCalls : completionCalls[i] \in modelPerformance

\* C7: the reply of the response is the raw content (or "" when absent) for
\* every model but openai/gpt-oss-20b:free, and for that model it is
\* the result of cleanModelResponse, or of the second pass on that result.
C7_OnlyArtifactModelCleaned ==
  pc = "responded" =>
    /\ response.model # "openai/gpt-oss-20b:free"
         => response.reply = (IF Falsy(rawReply) THEN <<>> ELSE rawReply.text)
    /\ response.model = "openai/gpt-oss-20b:free"
         => response.reply \in
              {cleanModelResponse(OrEmpty(rawReply)),
               FallbackCleaning(cleanModelResponse(OrEmpty(rawReply)))}

C7_Witness ==
  /\ pc = "responded"
  /\ response.model = SONNET
  /\ ~Falsy(rawReply)
  /\ cleanModelResponse(rawReply.text) # rawReply.text
  /\ response.reply = rawReply.text

\* C8: when the cleaned form of the input is shorter than 10 characters,
\* cleanModelResponse returns the input unchanged.
C8_ShortCleanedReturnsInput ==
  (cleanPc \in {"once", "twice"} /\ Len(Cleaned(cleanInput)) < 10)
    => cleanOutput = cleanInput

C8_Witness ==
  /\ cleanPc = "once"
  /\ Len(Cleaned(cleanInput)) < 10
  /\ Len(cleanInput) > Len(Cleaned(cleanInput))
  /\ Len(cleanInput) >= 10
  /\ cleanOutput = cleanInput

\* C9: when the cleaned form of the input has 10 characters or more,
\* cleaning the result of cleanModelResponse again changes nothing.
C9_Idempotent ==
  (cleanPc = "twice" /\ Len(Cleaned(cleanInput)) >= 10)
    => cleanAgain = cleanOutput

\* The scenario of C10.
C10_Scenario ==
  /\ pc = "responded"
  /\ message = "hello"
  /\ modelSelection.model = "openai/gpt-oss-20b:free"
  /\ rawReply = Text(<<"a", "n", "a", "l", "y", "s", "i", "s", " ", "t", "h", "e", " ", "u", "s", "e", "r", " ", "w", "r", "o", "t", "e", " ", "h", "e", "l", "l", "o", " ", "s", "o", " ", "a", "n", "s", "w", "e", "r", ":", " ", "H", "i", " ", "t", "h", "e", "r", "e", "!">>)

\* C10, as claimed: in the scenario the reply of the response is "Hi there!".
C10_ReplyIsHiThere ==
  C10_Scenario => response.reply = <<"H", "i", " ", "t", "h", "e", "r", "e", "!">>

\* C10, amended: in the scenario the reply of the response is "the user
\* wrote hello Hi there!".
C10_ReplyKeepsUserWrote ==
  C10_Scenario => response.reply = <<"t", "h", "e", " ", "u", "s", "e", "r", " ", "w", "r", "o", "t", "e", " ", "h", "e", "l", "l", "o", " ", "H", "i", " ", "t", "h", "e", "r", "e", "!">>

C10_Witness ==
  /\ C10_Scenario
  /\ response.model = OSS
  /\ response.reply # OrEmpty(rawReply)

\* The invocations of handleSend that are over, and those whose fetch is
\* pending.
DoneCalls == {i \in DOMAIN calls : calls[i].stage = "done"}
CallsInFlight == {i \in DOMAIN calls : calls[i].stage \in {"sent", "handling"}}

\* C11: when the completion call fails, POST issues no other completion call
\* and builds no response; on the page the request ends with one assistant
\* message, the apology, and with isSending false again.
C11_CompletionFailure ==
  /\ (pc = "rejected" /\ routerOutcome = "returned")
       => (Len(completionCalls) = 1 /\ response = NoResponse)
  /\ \A i \in DOMAIN calls :
       calls[i].failure = "completion" =>
         /\ ~calls[i].result.ok
         /\ calls[i].stage = "done" =>
              /\ calls[i].answer.role = "assistant"
              /\ calls[i].answer.content
                   = <<"S", "o", "r", "r", "y", ",", " ", "t", "h", "e", "r", "e", " ", "w", "a", "s", " ", "a", " ", "p", "r", "o", "b", "l", "e", "m", " ", "c", "o", "n", "t", "a", "c", "t", "i", "n", "g", " ", "t", "h", "e", " ", "A", "P", "I", ".", " ", "P", "l", "e", "a", "s", "e", " ", "t", "r", "y", " ", "a", "g", "a", "i", "n", ".">>
              /\ appended.assistant = Cardinality(DoneCalls)
              /\ DoneCalls = DOMAIN calls => ~isSending

C11_Witness ==
  /\ Len(calls) = 1
  /\ calls[1].failure = "completion"
  /\ calls[1].stage = "done"
  /\ Len(messages) = 3
  /\ messages[3] = calls[1].answer
  /\ messages[3].content = Apology
  /\ ~isSending
  /\ ~rendered.isSending

\* C12: for a model that is no key of the catalog the response has
\* throughput, timeToFirstToken, tokensPerSecond and cost "N/A", for a key of
\* the catalog the values of its entry, and in both cases
\* actualTimeToFirstToken is the measured time in milliseconds.
C12_PerformanceOfResponse ==
  pc = "responded" =>
    LET p == response.performance
        static == <<p.throughput, p.timeToFirstToken, p.tokensPerSecond, p.cost>>
    IN /\ p.actualTimeToFirstToken = <<endTime - startTime, "ms">>
       /\ response.model = "openai/gpt-oss-20b:free"
            => static = <<"162 tps", "0.52s", "162", "Free">>
       /\ response.model = "anthropic/claude-sonnet-4"
            => static = <<"120 tps", "1.2s", "120", "$3/M input, $15/M output">>
       /\ response.model = "openai/gpt-5-mini"
            => static = <<"150 tps", "0.8s", "150", "$0.25/M input, $2/M output">>
       /\ response.model \notin {"openai/gpt-oss-20b:free", "anthropic/claude-sonnet-4",
                                 "openai/gpt-5-mini"}
            => static = <<"N/A", "N/A", "N/A", "N/A">>

C12_Witness ==
  /\ pc = "responded"
  /\ response.model = "gpt-4"
  /\ response.performance.cost = "N/A"
  /\ response.performance.actualTimeToFirstToken = <<2, "ms">>

\* C13: the prompt of every classifier call states the order of priority of
\* the routing rules, coding over reasoning over simple.
C13_PromptStatesPriority ==
  classifierCalls > 0 =>
    \E i \in DOMAIN routingPrompt.rules :
      routingPrompt.rules[i]
        = "- If multiple criteria apply, prioritize: Coding > Reasoning > Simple"

\* C14, as claimed: the start of the reported time is read when the
\* completion call is issued, so the reported time is the duration of the
\* completion call and never includes the classifier call.
C14_StartsAtCompletionCall ==
  pc = "responded" =>
    /\ startTime = issuedAt[2]
    /\ response.performance.actualTimeToFirstToken = <<endTime - issuedAt[2], "ms">>

\* C14, amended: the start of the reported time is read when the request is
\* received, before the classifier call is issued, and the end when the
\* completion call resolves, so the reported time is the duration of the
\* classifier call plus that of the completion call.
C14_StartsAtReceipt ==
  pc = "responded" =>
    /\ startTime = issuedAt[1]
    /\ issuedAt[1] <= issuedAt[2] /\ issuedAt[2] <= endTime
    /\ response.performance.actualTimeToFirstToken
         = <<(issuedAt[2] - issuedAt[1]) + (endTime - issuedAt[2]), "ms">>

C14_Witness ==
  /\ pc = "responded"
  /\ issuedAt[2] - issuedAt[1] = 2
  /\ endTime - issuedAt[2] = 1
  /\ response.performance.actualTimeToFirstToken = <<3, "ms">>

\* C15: in a request one classifier call is issued, the completion call is
\* issued only after the classifier call resolved and llmRouter returned a
\* decision, and at most one completion call is issued, failures included.
C15_CallsInSequence ==
  /\ pc # "idle" => classifierCalls = 1
  /\ Len(completionCalls) <= 1
  /\ Len(issuedAt) = classifierCalls + Len(completionCalls)
  /\ Len(completionCalls) = 1 =>
       /\ classifierCall = "resolved"
       /\ routerOutcome = "returned"
       /\ modelSelection # NoDecision
       /\ completionCalls[1] = modelSelection.model
  /\ classifierCall \in {"pending", "rejected"} => completionCalls = <<>>

C15_Witness ==
  /\ pc = "rejected"
  /\ classifierCalls = 1
  /\ Len(completionCalls) = 1

\* C16: the second pass runs only for openai/gpt-oss-20b:free and only when
\* the reply of the first pass contains "analysis" or "assistantfinal"; its
\* result replaces the reply exactly when it is longer than 10 characters;
\* and a reply that still contains artifacts is returned, with a warning.
C16_SecondPass ==
  pc = "responded" =>
    LET first == IF response.model = "openai/gpt-oss-20b:free"
                   THEN cleanModelResponse(OrEmpty(rawReply))
                   ELSE OrEmpty(rawReply)
        runs == /\ response.model = "openai/gpt-oss-20b:free"
                /\ (Includes(first, <<"a", "n", "a", "l", "y", "s", "i", "s">>) \/ Includes(first, <<"a", "s", "s", "i", "s", "t", "a", "n", "t", "f", "i", "n", "a", "l">>))
    IN /\ response.reply =
            IF runs /\ Len(fallbackReply(first)) > 10 THEN fallbackReply(first) ELSE first
       /\ "Fallback cleaning applied" \in log
            <=> (runs /\ Len(fallbackReply(first)) > 10)
       /\ "Response still contains artifacts after cleaning" \in log
            <=> (response.model = "openai/gpt-oss-20b:free" /\ HasArtifacts(response.reply))

C16_Witness ==
  /\ pc = "responded"
  /\ "Fallback cleaning applied" \in log
  /\ "Response still contains artifacts after cleaning" \in log
  /\ HasArtifacts(response.reply)
  /\ response.reply # cleanModelResponse(OrEmpty(rawReply))

\* C17: every assistant message of the list has both model and performance
\* or neither.
C17_ModelWithPerformance ==
  \A i \in DOMAIN messages :
    messages[i].role = "assistant"
      => (messages[i].model.defined <=> messages[i].performance.defined)

C17_Witness ==
  /\ Len(calls) = 2
  /\ DoneCalls = {1, 2}
  /\ Len(messages) = 5
  /\ messages[3].model.defined /\ messages[3].performance.defined
  /\ calls[2].result.ok
  /\ "model" \in calls[2].result.json.has
  /\ calls[2].result.json.reply = <<>>
  /\ ~messages[5].model.defined /\ ~messages[5].performance.defined

\* C18: at most one request of the page is in flight; handleSend passes
\* canSend only when every earlier invocation is over, and every invocation
\* appends one user message and, when it is over, one assistant message.
C18_OneRequestInFlight ==
  /\ Cardinality(CallsInFlight) <= 1
  /\ Cardinality(DOMAIN calls \ DoneCalls) <= 1
  /\ \A i \in DOMAIN calls : i < Len(calls) => calls[i].stage = "done"
  /\ appended.user = Len(calls)
  /\ appended.assistant = Cardinality(DoneCalls)

C18_Witness ==
  /\ Len(calls) = 2
  /\ calls[1].stage = "done"
  /\ calls[2].stage = "handling"
  /\ Len(Trim(input)) > 0
  /\ Len(messages) = 1
  /\ messages[1].role = "user"

====
